---- MODULE Spec2Model ----
(***************************************************************************)
(* Model of the phonotactic scheme parser (src/src/scheme.rs), the         *)
(* validation engine and the test runner (src/src/tests.rs), driven as in  *)
(* src/src/main.rs: parse the file, then run the tests of the scheme.      *)
(*                                                                         *)
(* Strings are sequences of one-character strings.  Option<T> is the empty *)
(* sequence (None) or a one-element sequence (Some(x)).                    *)
(***************************************************************************)
EXTENDS Integers, Sequences, FiniteSets

VARIABLES file, pc, i, classes, tests, rules_raw, rule_reason,
          is_useful_reason, rules, result, scheme, t, list, fail_count,
          max_word_len, verdict

vars == <<file, pc, i, classes, tests, rules_raw, rule_reason,
          is_useful_reason, rules, result, scheme, t, list, fail_count,
          max_word_len, verdict>>

parseVars == <<classes, tests, rules_raw, rule_reason, is_useful_reason, rules>>

runVars == <<t, list, fail_count, max_word_len, verdict>>

----------------------------------------------------------------------------
(* Bounds of the model *)

MaxLines == 3

MaxRules == 2

MaxTests == 2

----------------------------------------------------------------------------
(* Characters and strings *)

TAB == "\t"

Chars == {"$", "@", "&", "*", "#", "%", "+", "!", "?", " ", TAB,
          "a", "b", "q", "X", "Y", "(", ")"}

None == <<>>

Some(x) == <<x>>

\* char::is_whitespace restricted to the characters of the model
IsWhitespace(c) == c \in {" ", TAB}

\* char::is_uppercase restricted to the characters of the model
IsUppercase(c) == c \in {"X", "Y"}

RECURSIVE TrimStart(_)
TrimStart(s) ==
  IF s = <<>> THEN s
  ELSE IF IsWhitespace(Head(s)) THEN TrimStart(Tail(s)) ELSE s

RECURSIVE TrimEnd(_)
TrimEnd(s) ==
  IF s = <<>> THEN s
  ELSE IF IsWhitespace(s[Len(s)]) THEN TrimEnd(SubSeq(s, 1, Len(s) - 1)) ELSE s

\* str::trim
Trim(s) == TrimEnd(TrimStart(s))

\* str::replace(from, to) for a one-character pattern `from`
RECURSIVE Replace(_, _, _)
Replace(s, from, to) ==
  IF s = <<>> THEN <<>>
  ELSE (IF Head(s) = from THEN to ELSE <<Head(s)>>) \o Replace(Tail(s), from, to)

\* chars.as_str() after k calls of chars.next()
Rest(s, k) == IF k >= Len(s) THEN <<>> ELSE SubSeq(s, k + 1, Len(s))

----------------------------------------------------------------------------
(* Regular expressions: the fragment made of literal characters and groups *)

RECURSIVE Depth(_, _)
\* nesting depth after reading s from depth d; -1 when a `)` closes nothing
Depth(s, d) ==
  IF d < 0 \/ s = <<>> THEN d
  ELSE Depth(Tail(s), IF Head(s) = "(" THEN d + 1
                      ELSE IF Head(s) = ")" THEN d - 1 ELSE d)

\* Regex::new(pattern) succeeds: every group is closed
Compiles(pattern) == Depth(pattern, 0) = 0

RECURSIVE Literal(_)
\* the characters a compiled pattern has to find, its groups opened up
Literal(pattern) ==
  IF pattern = <<>> THEN <<>>
  ELSE (IF Head(pattern) \in {"(", ")"} THEN <<>> ELSE <<Head(pattern)>>)
       \o Literal(Tail(pattern))

\* Regex::is_match(word): the pattern occurs somewhere in the word
IsMatch(pattern, word) ==
  LET lit == Literal(pattern) IN
  \E k \in 0..Len(word) :
     /\ k + Len(lit) <= Len(word)
     /\ SubSeq(word, k + 1, k + Len(lit)) = lit

----------------------------------------------------------------------------
(* ParseError and the result of Scheme::parse *)

UnknownIntentIdentifier(ch) == [kind |-> "UnknownIntentIdentifier", ch |-> ch]

UnknownLineOperator(ch) == [kind |-> "UnknownLineOperator", ch |-> ch]

UnknownClass(ch) == [kind |-> "UnknownClass", ch |-> ch]

RegexFail == [kind |-> "RegexFail", ch |-> ""]

Pending == [tag |-> "Pending", kind |-> "", ch |-> ""]

Ok == [tag |-> "Ok", kind |-> "", ch |-> ""]

Err(e) == [tag |-> "Err", kind |-> e.kind, ch |-> e.ch]

----------------------------------------------------------------------------
(* Class substitution *)

RECURSIVE SubstituteLoop(_, _, _)
\* the loop of substitute_classes: `todo` is what rule.chars() still yields
SubstituteLoop(todo, new, cls) ==
  IF todo = <<>> THEN [err |-> None, new |-> new]
  ELSE LET ch == Head(todo) IN
       IF IsUppercase(ch)
       THEN IF cls[ch] = None
            THEN [err |-> Some(UnknownClass(ch)), new |-> <<>>]
            ELSE SubstituteLoop(Tail(todo),
                                Replace(new, ch, <<"(">> \o cls[ch][1] \o <<")">>),
                                cls)
       ELSE SubstituteLoop(Tail(todo), new, cls)

RECURSIVE SubstituteLenient(_, _, _)
\* variant that leaves the name of an undefined class in the pattern
SubstituteLenient(todo, new, cls) ==
  IF todo = <<>> THEN [err |-> None, new |-> new]
  ELSE LET ch == Head(todo) IN
       IF IsUppercase(ch) /\ cls[ch] # None
       THEN SubstituteLenient(Tail(todo),
                              Replace(new, ch, <<"(">> \o cls[ch][1] \o <<")">>),
                              cls)
       ELSE SubstituteLenient(Tail(todo), new, cls)

substitute_classes_lenient(rule, cls) == SubstituteLenient(rule, rule, cls)

substitute_classes(rule, cls) == SubstituteLoop(rule, rule, cls)

----------------------------------------------------------------------------
(* Lines of the scheme file *)

\* `@`, `@@`: the text that is stored; the comparison itself takes a character
ReasonText(line) ==
  IF Len(line) >= 2 /\ line[2] = "@" THEN Trim(Rest(line, 3))
  ELSE Trim(Rest(line, 2))

\* `@@` marks a reason used by multiple rules
ReasonShared(line) == Len(line) >= 2 /\ line[2] = "@"

\* the pattern of a rule line, before class substitution
RulePattern(line) == Replace(Rest(line, 2), " ", <<>>)

ReasonAfterRuleKept(reason, useful) == reason

\* the pending reason once a rule has taken it
ReasonAfterRule(reason, useful) == IF ~useful THEN None ELSE reason

\* the word of a test line
TestWord(line) == Trim(Rest(line, 2))

LinePool ==
  { <<" ">>,
    <<"#", "a">>,
    <<"$", "X", "a">>,
    <<"$", "X", "Y">>,
    <<"$", "Y", "b">>,
    <<"@", " ", "q">>,
    <<"@", "q">>,
    <<"@", "@", " ", "a">>,
    <<"&", "+", "a", " ", "b">>,
    <<"&", "+", "a", TAB, "b">>,
    <<" ", "&", "!", "a">>,
    <<"&", "+", "X", "Y">>,
    <<"&", "+", "(">>,
    <<"&", "?", "a">>,
    <<"&">>,
    <<"*", "+", "a", "b">>,
    <<"*", "!", " ", "a", "b">>,
    <<"%", "a">> }

Files == UNION { [1..n -> LinePool] : n \in 1..MaxLines }

----------------------------------------------------------------------------
(* Validity, Reason and the validation engine *)

Valid == [tag |-> "Valid"]

Invalid(reason_ref) == [tag |-> "Invalid", ref |-> reason_ref]

Passed == [tag |-> "Passed"]

NoReasonGiven == [tag |-> "NoReasonGiven"]

ShouldNotHaveMatched == [tag |-> "ShouldNotHaveMatched"]

Custom(text) == [tag |-> "Custom", text |-> text]

\* the ^ of two booleans
Xor(a, b) == a # b

RECURSIVE validate_test_last(_, _)
\* variant in which a later rule overrides an earlier one
validate_test_last(word, rs) ==
  IF rs = <<>> THEN Valid
  ELSE LET r == rs[Len(rs)] IN
       IF Xor(r.intent, IsMatch(r.re, word)) THEN Invalid(r.reason_ref)
       ELSE validate_test_last(word, SubSeq(rs, 1, Len(rs) - 1))

RECURSIVE validate_test(_, _)
validate_test(word, rs) ==
  IF rs = <<>> THEN Valid
  ELSE LET r == Head(rs) IN
       IF Xor(r.intent, IsMatch(r.re, word)) THEN Invalid(r.reason_ref)
       ELSE validate_test(word, Tail(rs))

\* scheme.reasons.get(n), n counted from 0
ReasonsGet(reasons, n) == IF n < Len(reasons) THEN Some(reasons[n + 1]) ELSE None

FailReasonTrusting(v, reasons) ==
  IF v.tag = "Valid" THEN ShouldNotHaveMatched
  ELSE IF v.ref = None THEN NoReasonGiven
  ELSE IF v.ref[1] < Len(reasons) THEN Custom(reasons[v.ref[1] + 1])
  ELSE Custom(<<>>)

\* the reason of a test that failed
FailReason(v, reasons) ==
  IF v.tag = "Valid" THEN ShouldNotHaveMatched
  ELSE IF v.ref = None THEN NoReasonGiven
  ELSE IF ReasonsGet(reasons, v.ref[1]) # None
       THEN Custom(ReasonsGet(reasons, v.ref[1])[1])
       ELSE NoReasonGiven

----------------------------------------------------------------------------
(* Scheme::parse: the loop over the lines of the file *)

\* the line under the cursor, trimmed
Line == Trim(file[i])

AtLine == pc = "lines" /\ i <= Len(file)

\* what the variables of the test runner hold before run_tests is entered
RunIdle ==
  /\ t = 1
  /\ list = <<>>
  /\ fail_count = 0
  /\ max_word_len = 0
  /\ verdict = Valid

NoScheme == [rules |-> <<>>, tests |-> <<>>, reasons |-> <<>>]

Init ==
  /\ file \in Files
  /\ pc = "lines"
  /\ i = 1
  /\ classes = [c \in Chars |-> None]
  /\ tests = <<>>
  /\ rules_raw = <<>>
  /\ rule_reason = None
  /\ is_useful_reason = FALSE
  /\ rules = <<>>
  /\ result = Pending
  /\ scheme = NoScheme
  /\ RunIdle

\* a parse error: parse returns, main panics on the Err
Fail(e) ==
  /\ pc' = "failed"
  /\ result' = Err(e)
  /\ UNCHANGED <<file, i, parseVars, scheme, runVars>>

\* the loop goes to the next line
NextLine ==
  /\ i' = i + 1
  /\ UNCHANGED <<file, pc, result, rules, scheme, runVars>>

ParseBlank ==
  /\ AtLine
  /\ Line = <<>>
  /\ NextLine
  /\ UNCHANGED <<classes, tests, rules_raw, rule_reason, is_useful_reason>>

ParseComment ==
  /\ AtLine
  /\ Line # <<>> /\ Line[1] = "#"
  /\ NextLine
  /\ UNCHANGED <<classes, tests, rules_raw, rule_reason, is_useful_reason>>

ParseClass ==
  /\ AtLine
  /\ Line # <<>> /\ Line[1] = "$"
  /\ classes' = IF Len(Line) >= 2
                THEN [classes EXCEPT ![Line[2]] = Some(Trim(Rest(Line, 2)))]
                ELSE classes
  /\ NextLine
  /\ UNCHANGED <<tests, rules_raw, rule_reason, is_useful_reason>>

ParseReason ==
  /\ AtLine
  /\ Line # <<>> /\ Line[1] = "@"
  /\ is_useful_reason' = ReasonShared(Line)
  /\ rule_reason' = Some(ReasonText(Line))
  /\ NextLine
  /\ UNCHANGED <<classes, tests, rules_raw>>

ParseRule ==
  /\ AtLine
  /\ Line # <<>> /\ Line[1] = "&"
  /\ IF Len(Line) < 2
     THEN /\ NextLine
          /\ UNCHANGED <<classes, tests, rules_raw, rule_reason, is_useful_reason>>
     ELSE IF Line[2] \notin {"+", "!"}
     THEN Fail(UnknownIntentIdentifier(Line[2]))
     ELSE /\ rules_raw' = Append(rules_raw, [intent |-> Line[2] = "+",
                                             rule   |-> RulePattern(Line),
                                             reason |-> rule_reason])
          /\ rule_reason' = ReasonAfterRule(rule_reason, is_useful_reason)
          /\ NextLine
          /\ UNCHANGED <<classes, tests, is_useful_reason>>

ParseTest ==
  /\ AtLine
  /\ Line # <<>> /\ Line[1] = "*"
  /\ IF Len(Line) < 2
     THEN /\ NextLine
          /\ UNCHANGED <<classes, tests, rules_raw, rule_reason, is_useful_reason>>
     ELSE IF Line[2] \notin {"+", "!"}
     THEN Fail(UnknownIntentIdentifier(Line[2]))
     ELSE /\ tests' = IF TestWord(Line) # <<>>
                      THEN Append(tests, [intent |-> Line[2] = "+",
                                          word   |-> TestWord(Line)])
                      ELSE tests
          /\ NextLine
          /\ UNCHANGED <<classes, rules_raw, rule_reason, is_useful_reason>>

ParseUnknown ==
  /\ AtLine
  /\ Line # <<>> /\ Line[1] \notin {"#", "$", "@", "&", "*"}
  /\ Fail(UnknownLineOperator(Line[1]))

\* the lines are exhausted: on to the loop over rules_raw
EndOfLines ==
  /\ pc = "lines" /\ i > Len(file)
  /\ pc' = "rules"
  /\ UNCHANGED <<file, i, parseVars, result, scheme, runVars>>

\* one turn of the loop that substitutes the classes and compiles the rule
SubstituteRule ==
  /\ pc = "rules" /\ Len(rules) < Len(rules_raw)
  /\ LET raw == rules_raw[Len(rules) + 1]
         sub == substitute_classes(raw.rule, classes)
     IN IF sub.err # None THEN Fail(sub.err[1])
        ELSE IF ~Compiles(sub.new) THEN Fail(RegexFail)
        ELSE /\ rules' = Append(rules, [intent |-> raw.intent,
                                        re     |-> sub.new,
                                        reason |-> raw.reason])
             /\ UNCHANGED <<file, pc, i, classes, tests, rules_raw, rule_reason,
                            is_useful_reason, result, scheme, runVars>>

----------------------------------------------------------------------------
(* The Scheme handed to run_tests: rules carry references into the reasons *)

\* how many of the first m rules have a reason
ReasonCount(rs, m) == Cardinality({k \in 1..m : rs[k].reason # None})

\* the reasons of the rules, in the order of the rules
Registry(rs) ==
  [n \in 1..ReasonCount(rs, Len(rs)) |->
     rs[CHOOSE k \in 1..Len(rs) : rs[k].reason # None /\ ReasonCount(rs, k) = n].reason[1]]

\* the rules with each reason replaced by its reference, counted from 0
Referenced(rs) ==
  [m \in 1..Len(rs) |->
     [intent     |-> rs[m].intent,
      re         |-> rs[m].re,
      reason_ref |-> IF rs[m].reason = None THEN None
                     ELSE Some(ReasonCount(rs, m) - 1)]]

TestItems(ts) ==
  [m \in 1..Len(ts) |-> [kind |-> "Test", intent |-> ts[m].intent, word |-> ts[m].word]]

\* parse returns Ok(Scheme), main passes the scheme to run_tests
ParseOk ==
  /\ pc = "rules" /\ Len(rules) = Len(rules_raw)
  /\ result' = Ok
  /\ scheme' = [rules   |-> Referenced(rules),
                tests   |-> TestItems(tests),
                reasons |-> Registry(rules)]
  /\ pc' = "run"
  /\ UNCHANGED <<file, i, parseVars, runVars>>

----------------------------------------------------------------------------
(* run_tests *)

RunTestsEmpty ==
  /\ pc = "run" /\ Len(scheme.tests) < 1
  /\ pc' = "done"
  /\ list' = <<>> /\ fail_count' = 0 /\ max_word_len' = 0
  /\ UNCHANGED <<file, i, parseVars, result, scheme, t, verdict>>

RunNote ==
  /\ pc = "run" /\ t <= Len(scheme.tests)
  /\ scheme.tests[t].kind = "Note"
  /\ list' = Append(list, [kind |-> "Note", note |-> scheme.tests[t].note])
  /\ t' = t + 1
  /\ UNCHANGED <<file, pc, i, parseVars, result, scheme, fail_count,
                 max_word_len, verdict>>

RunTest ==
  /\ pc = "run" /\ t <= Len(scheme.tests)
  /\ scheme.tests[t].kind = "Test"
  /\ LET intent == scheme.tests[t].intent
         word   == scheme.tests[t].word
         reason == validate_test(word, scheme.rules)
         pass   == ~Xor(reason.tag = "Valid", intent)
     IN /\ verdict' = reason
        /\ fail_count' = IF ~pass THEN fail_count + 1 ELSE fail_count
        /\ max_word_len' = IF Len(word) > max_word_len THEN Len(word)
                           ELSE max_word_len
        /\ list' = Append(list,
                          [kind   |-> "Test",
                           intent |-> intent,
                           word   |-> word,
                           pass   |-> pass,
                           reason |-> IF ~pass
                                      THEN FailReason(reason, scheme.reasons)
                                      ELSE Passed])
  /\ t' = t + 1
  /\ UNCHANGED <<file, pc, i, parseVars, result, scheme>>

RunDone ==
  /\ pc = "run" /\ Len(scheme.tests) >= 1 /\ t > Len(scheme.tests)
  /\ pc' = "done"
  /\ UNCHANGED <<file, i, parseVars, result, scheme, runVars>>

----------------------------------------------------------------------------
(* main: parse the file, then run the tests of the scheme *)

Next ==
  \/ ParseBlank
  \/ ParseComment
  \/ ParseClass
  \/ ParseReason
  \/ ParseRule
  \/ ParseTest
  \/ ParseUnknown
  \/ EndOfLines
  \/ SubstituteRule
  \/ ParseOk
  \/ RunTestsEmpty
  \/ RunTest
  \/ RunDone

Spec == Init /\ [][Next]_vars

----------------------------------------------------------------------------
(* run_tests on any Scheme a caller of the library can build *)

PatternPool == { <<"a", "b">> }

WordPool == { <<"a", "b">>, <<"b">> }

RefPool == { None, Some(0), Some(1) }

ReasonsPool == { <<>>, << <<"q">> >> }

RulePool == [intent : BOOLEAN, re : PatternPool, reason_ref : RefPool]

ItemPool ==
  { [kind |-> "Note", note |-> <<"q">>] }
  \cup { [kind |-> "Test", intent |-> b, word |-> w] : b \in BOOLEAN, w \in WordPool }

Schemes ==
  { [rules |-> rs, tests |-> ts, reasons |-> re] :
      rs \in UNION { [1..n -> RulePool] : n \in 0..MaxRules },
      ts \in UNION { [1..n -> ItemPool] : n \in 0..MaxTests },
      re \in ReasonsPool }

InitRun ==
  /\ scheme \in Schemes
  /\ pc = "run"
  /\ file = <<>>
  /\ i = 1
  /\ classes = [c \in Chars |-> None]
  /\ tests = <<>>
  /\ rules_raw = <<>>
  /\ rule_reason = None
  /\ is_useful_reason = FALSE
  /\ rules = <<>>
  /\ result = Ok
  /\ RunIdle

NextRun ==
  \/ RunTestsEmpty
  \/ RunNote
  \/ RunTest
  \/ RunDone

SpecRun == InitRun /\ [][NextRun]_vars

----------------------------------------------------------------------------
(* What the claims are stated in: read off the file, not off the parser *)

\* the latest result in the report is that of a test
JustTested == list # <<>> /\ list[Len(list)].kind = "Test"

Latest == list[Len(list)]

IsReasonLine(l) == Trim(l) # <<>> /\ Trim(l)[1] = "@"

IsSharedReasonLine(l) == Len(Trim(l)) >= 2 /\ Trim(l)[1] = "@" /\ Trim(l)[2] = "@"

IsRuleLine(l) == Len(Trim(l)) >= 2 /\ Trim(l)[1] = "&" /\ Trim(l)[2] \in {"+", "!"}

IsClassLine(l, X) == Len(Trim(l)) >= 2 /\ Trim(l)[1] = "$" /\ Trim(l)[2] = X

\* the indexes of the rule lines among the first n lines
RuleLines(n) == {j \in 1..n : IsRuleLine(file[j])}

\* the position in rules_raw of the rule of line j
Rank(j) == Cardinality({k \in RuleLines(j) : k <= j})

\* the reason lines above line j
ReasonLinesAbove(j) == {k \in 1..(j - 1) : IsReasonLine(file[k])}

Max(S) == CHOOSE x \in S : \A y \in S : y <= x

Min(S) == CHOOSE x \in S : \A y \in S : x <= y

\* the reason the rule of line j is to carry
ExpectedReason(j) ==
  IF ReasonLinesAbove(j) = {} THEN None
  ELSE LET k == Max(ReasonLinesAbove(j)) IN
       IF IsSharedReasonLine(file[k]) \/ {r \in RuleLines(j - 1) : r > k} = {}
       THEN Some(ReasonText(Trim(file[k])))
       ELSE None

\* the text after the marker `@` or `@@`, trimmed
TextAfterMarker(l) ==
  Trim(Rest(Trim(l), IF IsSharedReasonLine(l) THEN 2 ELSE 1))

RECURSIVE StripWhitespace(_)
StripWhitespace(s) ==
  IF s = <<>> THEN <<>>
  ELSE (IF IsWhitespace(Head(s)) THEN <<>> ELSE <<Head(s)>>)
       \o StripWhitespace(Tail(s))

RECURSIVE OnePass(_, _)
\* every class name of the raw pattern replaced once, the values left as they are
OnePass(raw, cls) ==
  IF raw = <<>> THEN <<>>
  ELSE (IF IsUppercase(Head(raw)) /\ cls[Head(raw)] # None
        THEN <<"(">> \o cls[Head(raw)][1] \o <<")">>
        ELSE <<Head(raw)>>)
       \o OnePass(Tail(raw), cls)

Contains(s, c) == \E k \in 1..Len(s) : s[k] = c

\* the class names used by a rule line of the file that no `$` line defines
Undefined ==
  {X \in {c \in Chars : IsUppercase(c)} :
     /\ \E j \in 1..Len(file) : IsRuleLine(file[j]) /\ Contains(Rest(Trim(file[j]), 2), X)
     /\ \A j \in 1..Len(file) : ~IsClassLine(file[j], X)}

\* a line that stops the parser for another reason than a class
OtherFault ==
  \E j \in 1..Len(file) :
     LET l == Trim(file[j]) IN
     /\ l # <<>>
     /\ \/ l[1] \notin {"#", "$", "@", "&", "*"}
        \/ l[1] \in {"&", "*"} /\ Len(l) >= 2 /\ l[2] \notin {"+", "!"}
        \/ IsRuleLine(l) /\ ~Compiles(Rest(l, 2))

ParseReturned == pc \in {"failed", "run", "done"}

\* the rule disqualifies the word: the engine rejects the word on this rule alone
Disqualifying(word) ==
  {m \in 1..Len(scheme.rules) :
     validate_test(word, <<scheme.rules[m]>>).tag = "Invalid"}

----------------------------------------------------------------------------
(* Claims *)

\* C1: validate returns Invalid exactly when some rule has intent true and its
\* pattern matches the word, or intent false and its pattern does not match.
C1_InvalidIffMatchAndIntent ==
  JustTested =>
    (verdict.tag = "Invalid" <=>
       \E m \in 1..Len(scheme.rules) :
          LET r == scheme.rules[m] IN
          \/ r.intent /\ IsMatch(r.re, Latest.word)
          \/ ~r.intent /\ ~IsMatch(r.re, Latest.word))

\* C2: a test of intent true passes exactly when the engine returns Invalid, a
\* test of intent false exactly when the engine returns Valid.
C2_PassIffExpectedVerdict ==
  JustTested =>
    (Latest.pass <=> IF Latest.intent THEN verdict.tag = "Invalid"
                     ELSE verdict.tag = "Valid")

\* C3: with `&+p` the only rule and p matching w, the test `*+w` passes and the
\* test `*!w` fails with the reason of the rule, or NoReasonGiven without one.
C3_SingleRuleEndToEnd ==
  (pc = "done" /\ Len(rules) = 1 /\ rules[1].intent) =>
    \A m \in 1..Len(list) :
       IsMatch(rules[1].re, list[m].word) =>
         IF list[m].intent THEN list[m].pass
         ELSE /\ ~list[m].pass
              /\ list[m].reason = IF rules[1].reason = None THEN NoReasonGiven
                                  ELSE Custom(rules[1].reason[1])

\* C4: when validate returns Invalid(r), r is the reason reference of the
\* lowest-indexed rule that disqualifies the word, whatever the later rules do.
C4_FirstDisqualifyingRuleWins ==
  (JustTested /\ verdict.tag = "Invalid") =>
    /\ Disqualifying(Latest.word) # {}
    /\ verdict.ref = scheme.rules[Min(Disqualifying(Latest.word))].reason_ref

C4_Witness ==
  /\ JustTested /\ verdict.tag = "Invalid"
  /\ Len(scheme.rules) = 2
  /\ Disqualifying(Latest.word) = {1, 2}
  /\ scheme.rules[1].reason_ref # scheme.rules[2].reason_ref

\* C5: a rule carries the text of the nearest reason line above it when that
\* line is `@@`, or is `@` with no rule between the two; otherwise no reason.
C5_ReasonAttachment ==
  pc \in {"lines", "rules", "run", "done"} =>
    /\ Len(rules_raw) = Cardinality(RuleLines(i - 1))
    /\ \A j \in RuleLines(i - 1) : rules_raw[Rank(j)].reason = ExpectedReason(j)

C5_Witness ==
  /\ pc = "rules" /\ Len(file) = 3
  /\ IsReasonLine(file[1]) /\ ~IsSharedReasonLine(file[1])
  /\ IsRuleLine(file[2]) /\ IsRuleLine(file[3])
  /\ rules_raw[1].reason = Some(ReasonText(Trim(file[1])))
  /\ rules_raw[2].reason = None

\* C6: the text a reason line stores is all of the line after `@` or `@@`,
\* trimmed, no character lost.
C6_ReasonTextIsRestOfLine ==
  (pc = "lines" /\ i > 1 /\ IsReasonLine(file[i - 1])) =>
    rule_reason = Some(TextAfterMarker(file[i - 1]))

\* C7: a class name in a rule that no `$` line of the file defines makes parse
\* return an error, UnknownClass of that name when it is the only fault; a
\* name some `$` line defines, above or below the rule, never does.
C7_UnknownClass ==
  ParseReturned =>
    /\ Undefined # {} => result.tag = "Err"
    /\ \A X \in Undefined :
         (Undefined = {X} /\ ~OtherFault) => result = Err(UnknownClass(X))
    /\ result.kind = "UnknownClass" => result.ch \in Undefined

C7_Witness ==
  /\ pc = "failed" /\ result = Err(UnknownClass("Y"))
  /\ IsRuleLine(file[1]) /\ Contains(Trim(file[1]), "X")
  /\ \E j \in 2..Len(file) : IsClassLine(file[j], "X")

\* C8: the reason of a test outcome is Passed exactly when it passed; a failed
\* test gets ShouldNotHaveMatched on Valid, and on Invalid the Custom text the
\* reference resolves to, NoReasonGiven without reference or resolution.
C8_ReasonOfOutcome ==
  JustTested =>
    /\ Latest.reason = Passed <=> Latest.pass
    /\ (~Latest.pass /\ verdict.tag = "Valid") => Latest.reason = ShouldNotHaveMatched
    /\ (~Latest.pass /\ verdict.tag = "Invalid") =>
         Latest.reason =
           IF verdict.ref # None /\ verdict.ref[1] + 1 \in DOMAIN scheme.reasons
           THEN Custom(scheme.reasons[verdict.ref[1] + 1])
           ELSE NoReasonGiven

C8_Witness ==
  /\ pc = "done" /\ Len(list) = 2
  /\ list[1].kind = "Test" /\ list[1].reason = NoReasonGiven
  /\ list[2].kind = "Test" /\ list[2].reason.tag = "Custom"
  /\ scheme.rules[1].reason_ref = Some(1)

\* C9: substituted text is never scanned again: the compiled pattern is the
\* raw pattern with each class name replaced by its value in parentheses.
C9_NoRescan ==
  pc \in {"rules", "run", "done"} =>
    \A m \in 1..Len(rules) : rules[m].re = OnePass(rules_raw[m].rule, classes)

\* C10: the raw pattern of a rule line is the rest of the line after `&` and
\* the intent with every whitespace character removed.
C10_PatternWithoutWhitespace ==
  (pc = "lines" /\ i > 1 /\ IsRuleLine(file[i - 1])) =>
    rules_raw[Len(rules_raw)].rule = StripWhitespace(Rest(Trim(file[i - 1]), 2))

====
